---- MODULE Spec2Model ----
(***************************************************************************)
(* Model of src/NBO.py: the /process_excel request handler that reconciles *)
(* an NBO transaction ledger against a bank settlement report.             *)
(*                                                                         *)
(* Amounts are held in mills (1/1000 of a currency unit) so that the       *)
(* 2-decimal rounding of the tally and the 0.01 tolerance of the stopping  *)
(* rule are both visible.  Positions in a data frame are 1-based here      *)
(* (pandas uses 0-based labels); only their order and identity matter.     *)
(* Of the 21 output columns the model keeps the ones the code computes     *)
(* per row; the constant columns and the five further copies of the        *)
(* transaction date are left out.                                          *)
(***************************************************************************)
EXTENDS Integers, Sequences, FiniteSets, TLC

VARIABLES request, pc, nbo_df, bank_df, bank_groups, next_txn,
          used_oracle_numbers, used_bank_indices,
          matched, accepted, output_rows, final_df, exc, response

vars == <<request, pc, nbo_df, bank_df, bank_groups, next_txn,
          used_oracle_numbers, used_bank_indices,
          matched, accepted, output_rows, final_df, exc, response>>

(* ---------------------------- bounds ----------------------------------- *)
MaxTxn == 2
MaxBank == 3
ConcMaxTxn == 2
ConcMaxBank == 1

(* ------------------------- spreadsheet cells --------------------------- *)
\* A cell as pandas hands it over: a number, a text, a blank (NaN) or a
\* date/time object.
NumCell(n) == [k |-> "num", s |-> "", v |-> n]
StrCell(t) == [k |-> "str", s |-> t, v |-> 0]
NaNCell == [k |-> "nan", s |-> "", v |-> 0]
DateCell(t) == [k |-> "datetime", s |-> t, v |-> 0]

\* pd.notna
notna(c) == c.k # "nan"

\* Python floats: finite (in mills), nan, inf.
Fin(n) == [k |-> "fin", v |-> n]
FNaN == [k |-> "nan", v |-> 0]
FInf == [k |-> "inf", v |-> 0]

Ok(x) == [exc |-> "none", val |-> x]
Raise(e) == [exc |-> e, val |-> FNaN]

\* float(<str>) for the texts that occur in the input pools.
FloatOfText(t) ==
    CASE t = "1001"   -> Ok(Fin(1001000))
      [] t = "1001.0" -> Ok(Fin(1001000))
      [] t = "1002"   -> Ok(Fin(1002000))
      [] t = "1002.7" -> Ok(Fin(1002700))
      [] t = "1003"   -> Ok(Fin(1003000))
      [] t = "1004"   -> Ok(Fin(1004000))
      [] t = "nan"    -> Ok(FNaN)
      [] t = "inf"    -> Ok(FInf)
      [] OTHER        -> Raise("ValueError")

\* float(x) of a cell value.
float(c) ==
    CASE c.k = "num" -> Ok(Fin(c.v))
      [] c.k = "nan" -> Ok(FNaN)
      [] c.k = "str" -> FloatOfText(c.s)
      [] OTHER       -> Raise("TypeError")

\* int(<float>): truncation toward zero; nan and inf raise.
int(f) ==
    CASE f.k = "fin" -> Ok(Fin((IF f.v >= 0 THEN f.v \div 1000 ELSE -((-f.v) \div 1000))))
      [] f.k = "nan" -> Raise("ValueError")
      [] OTHER       -> Raise("OverflowError")

\* .str.strip().str.replace('"', '') for the texts of the input pools.
CleanText(t) ==
    CASE t = " \"INV100\" " -> "INV100"
      [] t = "INV200 "      -> "INV200"
      [] OTHER              -> t

\* .astype(str).str.strip() of a cell.
AsStrStripped(c) ==
    CASE c.k = "nan" -> "nan"
      [] OTHER       -> CleanText(c.s)

(* ------------------------------ inputs --------------------------------- *)
\* Rows of the transaction sheet (columns 2, 3, 5, 7 of the source sheet).
NboRow(d, r, ds, c) == [date |-> d, ref |-> r, desc |-> ds, credit |-> c]

\* Rows of the settlement sheet.
BankRow(ds, o, a) ==
    [desc |-> ds, oracle |-> o, amount |-> a, currency |-> "OMR", account |-> "ACC-1"]

\* Inputs every value of which the matching pass converts without an
\* uncaught exception.
TxnPool ==
    { NboRow("2025-07-01", StrCell("R1"), StrCell("INV100"), NumCell(150000)),
      NboRow("2025-07-02", StrCell("R1"), StrCell("INV200 "), NumCell(200000)),
      NboRow("2025-07-03", StrCell("R2"), StrCell(" \"INV100\" "), NumCell(100000)),
      NboRow("2025-07-04", NaNCell, StrCell("INV100"), NumCell(100000)) }

BankPool ==
    { BankRow(StrCell("INV100"), StrCell("1001"), NumCell(100000)),
      BankRow(StrCell("INV100"), StrCell("1002"), NumCell(50000)),
      BankRow(StrCell(" \"INV100\" "), StrCell("1001.0"), NumCell(99996)),
      BankRow(StrCell("INV100"), NaNCell, NumCell(50000)),
      BankRow(StrCell("INV100"), StrCell("1003"), StrCell("n/a")),
      BankRow(StrCell("INV200"), StrCell("1002.7"), NumCell(199990)) }

\* The same, with the values whose conversion is not caught.
TxnPoolFull ==
    TxnPool \cup
    { NboRow("2025-07-05", StrCell("R2"), StrCell("INV100"), StrCell("n/a")) }

BankPoolFull ==
    BankPool \cup
    { BankRow(StrCell("INV100"), StrCell("inf"), NumCell(50000)),
      BankRow(StrCell("INV100"), StrCell("1004"), DateCell("2025-07-01")) }

ConcTxnPool ==
    { NboRow("2025-07-01", StrCell("R1"), StrCell("INV100"), NumCell(150000)),
      NboRow("2025-07-03", StrCell("R2"), StrCell("INV100"), NumCell(100000)) }

ConcBankPool ==
    { BankRow(StrCell("INV100"), StrCell("1001"), NumCell(100000)),
      BankRow(StrCell("INV100"), StrCell("1002"), NumCell(50000)) }

SeqsUpTo(S, n) == UNION { [1..m -> S] : m \in 0..n }

\* An uploaded workbook: readable or not, with or without the requested
\* sheet, with or without the columns the code selects, and its data rows.
File(kd, rws) == [kind |-> kd, rows |-> rws]
FileKinds == {"ok", "unreadable", "nosheet", "nocolumn"}

\* A request: which of the two file parts it carries, and their content.
Request(parts, nf, bf) == [files |-> parts, nbo_file |-> nf, bank_file |-> bf]

Requests(tp, tn, bp, bn) ==
    { Request(parts, File("ok", <<>>), File("ok", <<>>)) :
        parts \in {{}, {"nbo_file"}, {"bank_file"}} }
    \cup { Request({"nbo_file", "bank_file"}, File(kd, <<>>), File("ok", <<>>)) :
             kd \in FileKinds \ {"ok"} }
    \cup { Request({"nbo_file", "bank_file"}, File("ok", t), File(kd, <<>>)) :
             kd \in FileKinds \ {"ok"}, t \in SeqsUpTo(tp, 1) }
    \cup { Request({"nbo_file", "bank_file"}, File("ok", t), File("ok", b)) :
             t \in SeqsUpTo(tp, tn), b \in SeqsUpTo(bp, bn) }

Runs == {"A", "B"}

(* --------------------------- float helpers ----------------------------- *)
FAdd(a, b) == IF a.k = "fin" /\ b.k = "fin" THEN Fin(a.v + b.v)
              ELSE IF a.k = "nan" \/ b.k = "nan" THEN FNaN ELSE FInf

FSub(a, b) == IF a.k = "fin" /\ b.k = "fin" THEN Fin(a.v - b.v)
              ELSE IF a.k = "nan" \/ b.k = "nan" THEN FNaN ELSE FInf

\* a >= b on floats; every comparison with nan is false.
FGe(a, b) == /\ a.k # "nan"
             /\ b.k # "nan"
             /\ \/ a.k = "inf"
                \/ a.k = "fin" /\ b.k = "fin" /\ a.v >= b.v

\* round(x, 2): to the nearest multiple of 0.01 (10 mills), ties to even.
round2(x) ==
    IF x.k # "fin" THEN x
    ELSE LET q == x.v \div 10
             m == x.v % 10
         IN  Fin(10 * (IF m < 5 THEN q
                       ELSE IF m > 5 THEN q + 1
                       ELSE IF q % 2 = 0 THEN q ELSE q + 1))

RECURSIVE FSum(_)
\* sum(r[0] for r in matched_receipts)
FSum(rs) == IF rs = <<>> THEN Fin(0) ELSE FAdd(FSum(SubSeq(rs, 1, Len(rs) - 1)), rs[Len(rs)].receipt_amt)

\* The tolerance of the stopping rule, 0.01, in mills.
Epsilon == 10

(* ------------------------------ loader --------------------------------- *)
\* safe_read_excel_from_bytes: any failure of pd.read_excel (bytes that are
\* no workbook, a sheet that is not there) is re-raised as ValueError.
safe_read_excel_from_bytes(f) ==
    IF f.kind \in {"unreadable", "nosheet"} THEN "ValueError" ELSE "none"

\* Selecting columns the sheet does not have raises KeyError.
SelectColumns(f) == IF f.kind = "nocolumn" THEN "KeyError" ELSE "none"

\* The first exception of lines 21-49, in the order the code runs them.
LoadException(req) ==
    CASE safe_read_excel_from_bytes(req.nbo_file) # "none" ->
             [type |-> safe_read_excel_from_bytes(req.nbo_file), at |-> "safe_read_excel_from_bytes"]
      [] SelectColumns(req.nbo_file) # "none" ->
             [type |-> SelectColumns(req.nbo_file), at |-> "columns"]
      [] safe_read_excel_from_bytes(req.bank_file) # "none" ->
             [type |-> safe_read_excel_from_bytes(req.bank_file), at |-> "safe_read_excel_from_bytes"]
      [] SelectColumns(req.bank_file) # "none" ->
             [type |-> SelectColumns(req.bank_file), at |-> "columns"]
      [] OTHER -> [type |-> "none", at |-> ""]

RECURSIVE SelectSeq2(_, _)
SelectSeq2(sq, keep) ==
    IF sq = <<>> THEN <<>>
    ELSE LET rest == SelectSeq2(Tail(sq), [i \in 1..(Len(sq) - 1) |-> keep[i + 1]])
         IN  IF keep[1] THEN <<Head(sq)>> \o rest ELSE rest

\* nbo_df after the notna filter and the string clean-up.
LoadNbo(rows) ==
    LET kept == SelectSeq2(rows, [i \in 1..Len(rows) |->
                                    notna(rows[i].credit) /\ notna(rows[i].ref)])
    IN  [i \in 1..Len(kept) |->
            [date |-> kept[i].date,
             ref |-> AsStrStripped(kept[i].ref),
             desc |-> AsStrStripped(kept[i].desc),
             credit |-> kept[i].credit]]

\* bank_df after the string clean-up.
LoadBank(rows) ==
    [i \in 1..Len(rows) |->
        [desc |-> AsStrStripped(rows[i].desc),
         oracle |-> AsStrStripped(rows[i].oracle),
         amount |-> rows[i].amount,
         currency |-> rows[i].currency,
         account |-> rows[i].account]]

RECURSIVE IndicesWith(_, _, _)
\* The positions from..Len(bank) whose description is d, in ledger order.
IndicesWith(bank, d, from) ==
    IF from > Len(bank) THEN <<>>
    ELSE (IF bank[from].desc = d THEN <<from>> ELSE <<>>) \o IndicesWith(bank, d, from + 1)

\* bank_groups: description -> positions, in ledger order.
BuildBankGroups(bank) ==
    [d \in {bank[i].desc : i \in 1..Len(bank)} |-> IndicesWith(bank, d, 1)]

\* bank_groups.get(desc, [])
GroupsGet(groups, d) == IF d \in DOMAIN groups THEN groups[d] ELSE <<>>

(* --------------------------- match engine ------------------------------ *)
NoneId == [k |-> "none", v |-> 0]
IntId(n) == [k |-> "int", v |-> n]

\* int(float(oracle_raw)) with ValueError caught as None (lines 81-86).
oracle_num(oracle_raw) ==
    LET f == float(StrCell(oracle_raw))
        i == int(f.val)
    IN  IF f.exc = "ValueError" THEN [exc |-> "none", val |-> NoneId]
        ELSE IF f.exc # "none" THEN [exc |-> f.exc, val |-> NoneId]
        ELSE IF i.exc = "ValueError" THEN [exc |-> "none", val |-> NoneId]
        ELSE IF i.exc # "none" THEN [exc |-> i.exc, val |-> NoneId]
        ELSE [exc |-> "none", val |-> IntId(i.val.v)]

\* float(bank_row["Receipt Amount"]) with ValueError caught as 0.0 (lines 89-93).
receipt_amt(cell) ==
    LET f == float(cell)
    IN  IF f.exc = "ValueError" THEN Ok(Fin(0)) ELSE f

\* IdUsable without the look-up in the used ids.
IdUsable_IgnoreUsed(num, used) == num.k # "none"

\* Line 87, negated: the id is a number and not yet used.
IdUsable(num, used) == num.k # "none" /\ num.v \notin used

\* ThresholdReached without the 0.01 tolerance.
ThresholdReached_NoTolerance(cumulative_sum, credit_amt) == FGe(cumulative_sum, credit_amt)

\* Line 104.
ThresholdReached(cumulative_sum, credit_amt) ==
    FGe(cumulative_sum, FSub(credit_amt, Fin(Epsilon)))

RECURSIVE ScanCandidates(_, _, _, _)
\* The inner loop, lines 76-105, over the candidates not yet examined.
ScanCandidates(cands, bank, credit_amt, st) ==
    IF cands = <<>> THEN st
    ELSE
      LET bank_idx == Head(cands)
          bank_row == bank[bank_idx]
          num == oracle_num(bank_row.oracle)
          amt == receipt_amt(bank_row.amount)
          st2 == [st EXCEPT
                    !.matched_receipts = Append(@, [receipt_amt |-> amt.val,
                                                    oracle_num |-> num.val.v,
                                                    currency |-> bank_row.currency,
                                                    account |-> bank_row.account]),
                    !.accepted = Append(@, bank_idx),
                    !.used_nums = @ \cup {num.val.v},
                    !.used_idx = @ \cup {bank_idx},
                    !.cumulative_sum = FAdd(@, amt.val)]
      IN  IF bank_idx \in st.used_idx THEN ScanCandidates(Tail(cands), bank, credit_amt, st)
          ELSE IF num.exc # "none" THEN [st EXCEPT !.exc = num.exc]
          ELSE IF ~IdUsable(num.val, st.used_nums) THEN ScanCandidates(Tail(cands), bank, credit_amt, st)
          ELSE IF amt.exc # "none" THEN [st EXCEPT !.exc = amt.exc]
          ELSE IF ThresholdReached(st2.cumulative_sum, credit_amt) THEN st2
          ELSE ScanCandidates(Tail(cands), bank, credit_amt, st2)

\* Lines 68-105 for one transaction, from the consumption state cs.
MatchTxn(txn, bank, groups, cs) ==
    LET c == float(txn.credit)
        st0 == [exc |-> c.exc, matched_receipts |-> <<>>, accepted |-> <<>>,
                used_nums |-> cs.nums, used_idx |-> cs.idx, cumulative_sum |-> Fin(0)]
    IN  IF c.exc # "none" THEN st0
        ELSE ScanCandidates(GroupsGet(groups, txn.desc), bank, c.val, st0)

(* --------------------------- row exploder ------------------------------ *)
None == [k |-> "none", s |-> "", v |-> 0]
Empty == [k |-> "empty", s |-> "", v |-> 0]
Num(n) == [k |-> "num", s |-> "", v |-> n]
Str(t) == [k |-> "str", s |-> t, v |-> 0]
NaN == [k |-> "nan", s |-> "", v |-> 0]
Inf == [k |-> "inf", s |-> "", v |-> 0]
OfFloat(f) == CASE f.k = "fin" -> Num(f.v) [] f.k = "nan" -> NaN [] OTHER -> Inf

\* build_output_row, lines 107-132.
build_output_row(txn, credit_amt, overrides) ==
    LET row_template ==
          [line_no |-> None, oracle_number |-> None, txn_date |-> txn.date,
           currency |-> None, account_number |-> None,
           ref |-> txn.ref, desc |-> txn.desc,
           credit |-> OfFloat(credit_amt), receipt |-> None, tally |-> None]
    IN  [f \in DOMAIN row_template |->
            IF f \in DOMAIN overrides THEN overrides[f] ELSE row_template[f]]

\* CreditShown without the first-row condition.
CreditShown_EveryRow(credit_amt, idx) == OfFloat(credit_amt)

\* Line 145; idx counts from 1 here.
CreditShown(credit_amt, idx) == IF idx = 1 THEN OfFloat(credit_amt) ELSE Empty

\* TallyShown without the rounding.
TallyShown_Unrounded(credit_amt, total_receipts, is_last) ==
    IF is_last THEN OfFloat(FSub(credit_amt, total_receipts)) ELSE Empty

\* Line 148.
TallyShown(credit_amt, total_receipts, is_last) ==
    IF is_last THEN OfFloat(round2(FSub(credit_amt, total_receipts))) ELSE Empty

\* UnmatchedRows filling the receipt and the tally as for a group of none.
UnmatchedRows_ZeroReceipt(txn, credit_amt) ==
    <<build_output_row(txn, credit_amt, [receipt |-> Num(0), tally |-> OfFloat(round2(credit_amt))])>>

\* Lines 133-135: the single row of a transaction nothing was matched to.
UnmatchedRows(txn, credit_amt) == <<build_output_row(txn, credit_amt, <<>>)>>

\* Lines 137-151: one row per matched receipt.
MatchedRows(txn, credit_amt, matched_receipts) ==
    LET total_receipts == FSum(matched_receipts)
    IN  [idx \in 1..Len(matched_receipts) |->
            build_output_row(txn, credit_amt,
              [oracle_number |-> Num(matched_receipts[idx].oracle_num),
               currency |-> Str(matched_receipts[idx].currency),
               account_number |-> Str(matched_receipts[idx].account),
               credit |-> CreditShown(credit_amt, idx),
               receipt |-> OfFloat(matched_receipts[idx].receipt_amt),
               tally |-> TallyShown(credit_amt, total_receipts,
                                    idx = Len(matched_receipts))])]

ExplodeRows(txn, credit_amt, matched_receipts) ==
    IF matched_receipts = <<>> THEN UnmatchedRows(txn, credit_amt)
    ELSE MatchedRows(txn, credit_amt, matched_receipts)

(* --------------------- deduplicator and renumberer --------------------- *)
DupKey(row) == <<row.ref, row.oracle_number>>

RECURSIVE DropSeen(_, _)
DropSeen(rows, seen) ==
    IF rows = <<>> THEN <<>>
    ELSE IF DupKey(Head(rows)) \in seen THEN DropSeen(Tail(rows), seen)
    ELSE <<Head(rows)>> \o DropSeen(Tail(rows), seen \cup {DupKey(Head(rows))})

\* drop_duplicates whose result is thrown away (no inplace=True).
drop_duplicates_NotInPlace(rows) == rows

RECURSIVE DropLater(_)
DropLater(rows) ==
    IF rows = <<>> THEN <<>>
    ELSE IF \E j \in 2..Len(rows) : DupKey(rows[j]) = DupKey(Head(rows)) THEN DropLater(Tail(rows))
    ELSE <<Head(rows)>> \o DropLater(Tail(rows))

\* drop_duplicates with keep="last".
drop_duplicates_KeepLast(rows) == DropLater(rows)

\* drop_duplicates(subset=[ref, oracle number], keep="first"), lines 156-157.
drop_duplicates(rows) == DropSeen(rows, {})

\* Lines 159-161: the old numbering is dropped, range(1, N + 1) inserted.
Renumber(rows) == [i \in 1..Len(rows) |-> [rows[i] EXCEPT !.line_no = Num(i)]]

(* ---------------------------- the handler ------------------------------ *)
NoExc == [type |-> "none", at |-> ""]
NoResponse == [status |-> 0, body |-> "none"]

\* Lines 224-231: ValueError is answered 400, anything else 500; both carry
\* an error message and no attachment.
ErrorResponse(type) ==
    IF type = "ValueError" THEN [status |-> 400, body |-> "error"]
    ELSE [status |-> 500, body |-> "error"]

\* ConsumptionState with the two sets held at module level, shared by all calls.
ConsumptionState_ProcessWide(r) ==
    [nums |-> UNION {used_oracle_numbers[q] : q \in Runs},
     idx |-> UNION {used_bank_indices[q] : q \in Runs}]

\* Lines 64-65: the two sets are locals of the call that serves run r.
ConsumptionState(r) == [nums |-> used_oracle_numbers[r], idx |-> used_bank_indices[r]]

\* A run that has received no request.
IdleRequest == Request({}, File("ok", <<>>), File("ok", <<>>))

InitRun(active) ==
    /\ pc = [r \in Runs |-> IF r \in active THEN "recv" ELSE "idle"]
    /\ nbo_df = [r \in Runs |-> <<>>]
    /\ bank_df = [r \in Runs |-> <<>>]
    /\ bank_groups = [r \in Runs |-> BuildBankGroups(<<>>)]
    /\ next_txn = [r \in Runs |-> 1]
    /\ used_oracle_numbers = [r \in Runs |-> {}]
    /\ used_bank_indices = [r \in Runs |-> {}]
    /\ matched = [r \in Runs |-> <<>>]
    /\ accepted = [r \in Runs |-> <<>>]
    /\ output_rows = [r \in Runs |-> <<>>]
    /\ final_df = [r \in Runs |-> <<>>]
    /\ exc = [r \in Runs |-> NoExc]
    /\ response = [r \in Runs |-> NoResponse]

\* One request at a time.
Init ==
    /\ \E q \in Requests(TxnPool, MaxTxn, BankPool, MaxBank) :
          request = [r \in Runs |-> IF r = "A" THEN q ELSE IdleRequest]
    /\ InitRun({"A"})

\* One request at a time, over the inputs that include the uncaught values.
InitFull ==
    /\ \E q \in Requests(TxnPoolFull, MaxTxn, BankPoolFull, MaxBank) :
          request = [r \in Runs |-> IF r = "A" THEN q ELSE IdleRequest]
    /\ InitRun({"A"})

\* Two requests in flight.
InitConc ==
    /\ \E qa, qb \in Requests(ConcTxnPool, ConcMaxTxn, ConcBankPool, ConcMaxBank) :
          request = [r \in Runs |-> IF r = "A" THEN qa ELSE qb]
    /\ InitRun(Runs)

\* Lines 201-203: a request without both file parts.
MissingFiles(r) ==
    /\ pc[r] = "recv"
    /\ ~({"nbo_file", "bank_file"} \subseteq request[r].files)
    /\ response' = [response EXCEPT ![r] = [status |-> 400, body |-> "error"]]
    /\ pc' = [pc EXCEPT ![r] = "done"]
    /\ UNCHANGED <<request, nbo_df, bank_df, bank_groups, next_txn, used_oracle_numbers,
                   used_bank_indices, matched, accepted, output_rows, final_df, exc>>

\* Lines 21-65: both sheets are read and cleaned, the settlement rows are
\* grouped by description and the containers are created.
LoadInputs(r) ==
    /\ pc[r] = "recv"
    /\ {"nbo_file", "bank_file"} \subseteq request[r].files
    /\ LET e == LoadException(request[r])
       IN  IF e.type # "none"
           THEN /\ exc' = [exc EXCEPT ![r] = e]
                /\ response' = [response EXCEPT ![r] = ErrorResponse(e.type)]
                /\ pc' = [pc EXCEPT ![r] = "done"]
                /\ UNCHANGED <<nbo_df, bank_df, bank_groups>>
           ELSE /\ nbo_df' = [nbo_df EXCEPT ![r] = LoadNbo(request[r].nbo_file.rows)]
                /\ bank_df' = [bank_df EXCEPT ![r] = LoadBank(request[r].bank_file.rows)]
                /\ bank_groups' = [bank_groups EXCEPT ![r] =
                                      BuildBankGroups(LoadBank(request[r].bank_file.rows))]
                /\ pc' = [pc EXCEPT ![r] = "match"]
                /\ UNCHANGED <<exc, response>>
    /\ UNCHANGED <<request, next_txn, used_oracle_numbers, used_bank_indices,
                   matched, accepted, output_rows, final_df>>

\* Lines 67-151 for the next transaction: match it, then explode it.
ProcessTxn(r) ==
    /\ pc[r] = "match"
    /\ next_txn[r] <= Len(nbo_df[r])
    /\ LET txn == nbo_df[r][next_txn[r]]
           st == MatchTxn(txn, bank_df[r], bank_groups[r], ConsumptionState(r))
       IN  /\ used_oracle_numbers' = [used_oracle_numbers EXCEPT ![r] = @ \cup
                                         {m.oracle_num : m \in {st.matched_receipts[k] : k \in DOMAIN st.matched_receipts}}]
           /\ used_bank_indices' = [used_bank_indices EXCEPT ![r] = @ \cup
                                         {st.accepted[k] : k \in DOMAIN st.accepted}]
           /\ IF st.exc # "none"
              THEN /\ exc' = [exc EXCEPT ![r] =
                                [type |-> st.exc,
                                 at |-> IF float(txn.credit).exc # "none" THEN "credit" ELSE "match"]]
                   /\ response' = [response EXCEPT ![r] = ErrorResponse(st.exc)]
                   /\ pc' = [pc EXCEPT ![r] = "done"]
                   /\ UNCHANGED <<matched, accepted, output_rows, next_txn>>
              ELSE /\ matched' = [matched EXCEPT ![r] = Append(@, st.matched_receipts)]
                   /\ accepted' = [accepted EXCEPT ![r] = Append(@, st.accepted)]
                   /\ output_rows' = [output_rows EXCEPT ![r] =
                                         @ \o ExplodeRows(txn, float(txn.credit).val, st.matched_receipts)]
                   /\ next_txn' = [next_txn EXCEPT ![r] = @ + 1]
                   /\ UNCHANGED <<exc, response, pc>>
    /\ UNCHANGED <<request, nbo_df, bank_df, bank_groups, final_df>>

\* Lines 153-231 once every transaction is processed: the frame is built,
\* deduplicated, renumbered, written and sent.  A frame built from no rows
\* has no columns, and drop_duplicates raises KeyError on its subset.
Finalize(r) ==
    /\ pc[r] = "match"
    /\ next_txn[r] > Len(nbo_df[r])
    /\ IF output_rows[r] = <<>>
       THEN /\ exc' = [exc EXCEPT ![r] = [type |-> "KeyError", at |-> "drop_duplicates"]]
            /\ response' = [response EXCEPT ![r] = ErrorResponse("KeyError")]
            /\ UNCHANGED final_df
       ELSE /\ final_df' = [final_df EXCEPT ![r] = Renumber(drop_duplicates(output_rows[r]))]
            /\ response' = [response EXCEPT ![r] = [status |-> 200, body |-> "dataset"]]
            /\ UNCHANGED exc
    /\ pc' = [pc EXCEPT ![r] = "done"]
    /\ UNCHANGED <<request, nbo_df, bank_df, bank_groups, next_txn, used_oracle_numbers,
                   used_bank_indices, matched, accepted, output_rows>>

Next ==
    \/ \E r \in Runs : MissingFiles(r)
    \/ \E r \in Runs : LoadInputs(r)
    \/ \E r \in Runs : ProcessTxn(r)
    \/ \E r \in Runs : Finalize(r)

Spec == Init /\ [][Next]_vars

SpecFull == InitFull /\ [][Next]_vars

SpecConc == InitConc /\ [][Next]_vars

(* ======================= properties of the run ========================= *)
\* The transactions run r has finished with (matched and exploded).
Processed(r) == 1..Len(matched[r])

\* The run answered with the output dataset.
Succeeded(r) == pc[r] = "done" /\ response[r].status = 200

CreditOf(r, i) == float(nbo_df[r][i].credit).val.v

RowCount(group) == IF group = <<>> THEN 1 ELSE Len(group)

RECURSIVE RowsBefore(_, _)
\* The number of rows the transactions before the i-th account for.
RowsBefore(r, i) == IF i <= 1 THEN 0 ELSE RowsBefore(r, i - 1) + RowCount(matched[r][i - 1])

\* Every processed transaction has its rows, and there are no others.
RowsAccounted(r) == Len(output_rows[r]) = RowsBefore(r, Len(matched[r]) + 1)

\* The rows of the i-th transaction in exploded order.
Segment(r, i) ==
    SubSeq(output_rows[r], RowsBefore(r, i) + 1, RowsBefore(r, i) + RowCount(matched[r][i]))

\* The candidate positions of the i-th transaction.
Candidates(r, i) == {p \in 1..Len(bank_df[r]) : bank_df[r][p].desc = nbo_df[r][i].desc}

\* The settlement id of position p, None when its coercion fails.
IdAt(r, p) == oracle_num(bank_df[r][p].oracle).val

\* What the transactions before the i-th consumed.
IdxBefore(r, i) ==
    UNION {{accepted[r][j][k] : k \in DOMAIN accepted[r][j]} : j \in 1..(i - 1)}

NumsBefore(r, i) ==
    UNION {{matched[r][j][k].oracle_num : k \in DOMAIN matched[r][j]} : j \in 1..(i - 1)}

\* The ids the i-th transaction accepted at positions before p.
NumsEarlierInGroup(r, i, p) ==
    {matched[r][i][k].oracle_num : k \in {k \in DOMAIN accepted[r][i] : accepted[r][i][k] < p}}

\* Position p could be accepted by the i-th transaction when it came to it.
AvailableAt(r, i, p) ==
    /\ p \notin IdxBefore(r, i)
    /\ IdAt(r, p).k # "none"
    /\ IdAt(r, p).v \notin NumsBefore(r, i) \cup NumsEarlierInGroup(r, i, p)

\* The receipts of the first m members of the i-th group, in mills.
RECURSIVE PrefixSum(_, _, _)
PrefixSum(r, i, m) ==
    IF m = 0 THEN 0 ELSE PrefixSum(r, i, m - 1) + matched[r][i][m].receipt_amt.v

\* The scan of the i-th transaction ended at the stopping rule.
Stopped(r, i) ==
    /\ matched[r][i] # <<>>
    /\ PrefixSum(r, i, Len(matched[r][i])) >= CreditOf(r, i) - Epsilon

(* C1: after the matching pass no settlement id, and no settlement record
   position, is accepted more than once: not by two transactions and not
   twice within one group. *)
C1_NoSettlementIdTwice ==
    \A r \in Runs : \A i, j \in Processed(r) :
        \A k \in DOMAIN matched[r][i], l \in DOMAIN matched[r][j] :
            <<i, k>> # <<j, l>> =>
                /\ matched[r][i][k].oracle_num # matched[r][j][l].oracle_num
                /\ accepted[r][i][k] # accepted[r][j][l]

\* A finished run in which two ledger positions carry the same id, one was
\* accepted, and the other was examined by a transaction and turned down.
C1_Witness ==
    \E r \in Runs :
        /\ Succeeded(r)
        /\ \E i, j \in Processed(r) : \E k \in DOMAIN accepted[r][i] : \E q \in Candidates(r, j) :
              /\ q # accepted[r][i][k]
              /\ IdAt(r, q) = IdAt(r, accepted[r][i][k])
              /\ q \notin used_bank_indices[r]
              /\ ~Stopped(r, j)

(* C2: for every transaction with a non-empty MatchGroup the tally on the
   last row of its group is credit_amount minus the sum of the group's
   receipt amounts rounded to 2 decimals (a multiple of 0.01 within half a
   cent of the exact difference), and every other row of the group has an
   empty tally. *)
C2_TallyOnLastRow ==
    \A r \in Runs :
        /\ RowsAccounted(r)
        /\ \A i \in Processed(r) :
              matched[r][i] # <<>> =>
                LET seg == Segment(r, i)
                    n == Len(seg)
                    exact == CreditOf(r, i) - PrefixSum(r, i, Len(matched[r][i]))
                    d == seg[n].tally.v - exact
                IN  /\ seg[n].tally.k = "num"
                    /\ seg[n].tally.v % 10 = 0
                    /\ d >= -5 /\ d <= 5
                    /\ \A k \in 1..(n - 1) : seg[k].tally = Empty

\* A finished run with a group of two or more rows whose exact residual is
\* not a whole number of cents.
C2_Witness ==
    \E r \in Runs :
        /\ Succeeded(r)
        /\ \E i \in Processed(r) :
              /\ Len(matched[r][i]) >= 2
              /\ (CreditOf(r, i) - PrefixSum(r, i, Len(matched[r][i]))) % 10 # 0

\* No candidate of the i-th transaction was available when it was processed.
ZeroAvailable(r, i) == \A p \in Candidates(r, i) : ~AvailableAt(r, i, p)

(* C3: a transaction whose description matches zero available settlement
   records when it is processed is exploded into exactly one row, with null
   settlement id, currency, account number, receipt amount and tally, and
   with the credit amount present. *)
C3_UnmatchedSingleNullRow ==
    \A r \in Runs :
        /\ RowsAccounted(r)
        /\ \A i \in Processed(r) :
              ZeroAvailable(r, i) =>
                LET seg == Segment(r, i)
                IN  /\ Len(seg) = 1
                    /\ seg[1].oracle_number = None
                    /\ seg[1].currency = None
                    /\ seg[1].account_number = None
                    /\ seg[1].receipt = None
                    /\ seg[1].tally = None
                    /\ seg[1].credit = Num(CreditOf(r, i))

\* A finished run with a transaction all of whose candidates were taken
\* before or have no valid id, both kinds being present.
C3_Witness ==
    \E r \in Runs :
        /\ Succeeded(r)
        /\ \E i \in Processed(r) :
              /\ ZeroAvailable(r, i)
              /\ \E p \in Candidates(r, i) : p \in IdxBefore(r, i)
              /\ \E p \in Candidates(r, i) : IdAt(r, p).k = "none"

\* The positions of output_rows whose (reference, settlement id) pair does
\* not occur at an earlier position.
FirstOccurrences(r) ==
    {i \in 1..Len(output_rows[r]) :
        \A j \in 1..(i - 1) : DupKey(output_rows[r][j]) # DupKey(output_rows[r][i])}

\* The k-th of them in exploded order.
KthFirst(r, k) ==
    CHOOSE i \in FirstOccurrences(r) : Cardinality({j \in FirstOccurrences(r) : j < i}) = k - 1

SameButLineNo(a, b) == [a EXCEPT !.line_no = None] = [b EXCEPT !.line_no = None]

(* C4: after deduplication and renumbering no two surviving rows share the
   same (reference, settlement id) pair, the survivors are the first
   occurrences of their pairs in exploded order, and their line numbers are
   exactly 1..N in their current order. *)
C4_DedupAndRenumber ==
    \A r \in Runs :
        Succeeded(r) =>
            /\ \A a, b \in 1..Len(final_df[r]) :
                  a # b => DupKey(final_df[r][a]) # DupKey(final_df[r][b])
            /\ Len(final_df[r]) = Cardinality(FirstOccurrences(r))
            /\ \A k \in 1..Len(final_df[r]) :
                  /\ final_df[r][k].line_no = Num(k)
                  /\ SameButLineNo(final_df[r][k], output_rows[r][KthFirst(r, k)])

\* A finished run in which the Deduplicator dropped a row.
C4_Witness ==
    \E r \in Runs :
        /\ Succeeded(r)
        /\ \E i \in 1..Len(output_rows[r]) : i \notin FirstOccurrences(r)

(* C5: a transaction with a non-empty MatchGroup of size N is exploded into
   exactly N rows, one per accepted settlement record in acceptance (ledger)
   order, all of them carrying the transaction's reference, description and
   date; the credit amount is on the first row only and is empty on rows
   2..N. *)
C5_ExplodedGroupRows ==
    \A r \in Runs :
        /\ RowsAccounted(r)
        /\ \A i \in Processed(r) :
              matched[r][i] # <<>> =>
                LET seg == Segment(r, i)
                    txn == nbo_df[r][i]
                IN  /\ Len(seg) = Len(accepted[r][i])
                    /\ \A k \in 1..Len(seg) :
                          /\ seg[k].oracle_number = Num(IdAt(r, accepted[r][i][k]).v)
                          /\ seg[k].receipt = OfFloat(receipt_amt(bank_df[r][accepted[r][i][k]].amount).val)
                          /\ seg[k].ref = txn.ref
                          /\ seg[k].desc = txn.desc
                          /\ seg[k].txn_date = txn.date
                          /\ seg[k].credit = IF k = 1 THEN Num(CreditOf(r, i)) ELSE Empty
                          /\ k > 1 => accepted[r][i][k - 1] < accepted[r][i][k]

\* A finished run with a group of at least two rows.
C5_Witness ==
    \E r \in Runs :
        /\ Succeeded(r)
        /\ \E i \in Processed(r) : Len(matched[r][i]) >= 2

RECURSIVE AloneGroups(_, _, _, _)
\* The MatchGroups of a run executed by itself, from a fresh consumption
\* state: the matching loop folded over its transactions.
AloneGroups(txns, bank, groups, cs) ==
    IF txns = <<>> THEN <<>>
    ELSE LET st == MatchTxn(Head(txns), bank, groups, cs)
         IN  IF st.exc # "none" THEN <<>>
             ELSE <<st.matched_receipts>>
                  \o AloneGroups(Tail(txns), bank, groups, [nums |-> st.used_nums, idx |-> st.used_idx])

Alone(r) == AloneGroups(nbo_df[r], bank_df[r], bank_groups[r], [nums |-> {}, idx |-> {}])

(* C6: the consumption state is allocated per run: whatever the interleaving
   of two runs, the MatchGroups a run has produced so far are the ones it
   produces when executed alone. *)
C6_RunsAreIsolated ==
    \A r \in Runs :
        /\ Len(matched[r]) <= Len(Alone(r))
        /\ matched[r] = SubSeq(Alone(r), 1, Len(matched[r]))

\* Both runs are in the middle of matching, each has matched its first
\* transaction, and both accepted the same settlement id at the same position.
C6_Witness ==
    /\ \A r \in Runs : pc[r] = "match" /\ Len(matched[r]) = 1 /\ Len(nbo_df[r]) = 2
    /\ \E k \in DOMAIN matched["A"][1], l \in DOMAIN matched["B"][1] :
          /\ matched["A"][1][k].oracle_num = matched["B"][1][l].oracle_num
          /\ accepted["A"][1][k] = accepted["B"][1][l]

(* C7: matching never raises: a settlement id whose coercion fails is skipped
   and neither its id nor its position is consumed, a receipt amount whose
   parse fails is accepted as 0, and no run ends in an error raised while
   candidates are matched. *)
C7_MatchingNeverRaises ==
    \A r \in Runs :
        /\ exc[r].at # "match"
        /\ \A p \in used_bank_indices[r] : float(StrCell(bank_df[r][p].oracle)).exc = "none"
        /\ \A i \in Processed(r) : \A k \in DOMAIN matched[r][i] :
              float(bank_df[r][accepted[r][i][k]].amount).exc # "none"
                  => matched[r][i][k].receipt_amt = Fin(0)

\* The request lacks a file part.
MissingFile(r) == ~({"nbo_file", "bank_file"} \subseteq request[r].files)

\* A workbook that cannot be parsed, lacks the sheet or lacks a required column.
InputFormatFailure(r) ==
    /\ ~MissingFile(r)
    /\ \/ request[r].nbo_file.kind # "ok"
       \/ request[r].bank_file.kind # "ok"

(* C8: a missing file payload and an input-format failure (sheet missing,
   required column missing, content not parsable) are answered 400 with a
   message, every other failure is answered 500, and no error answer
   carries an output dataset. *)
C8_FailureMapping ==
    \A r \in Runs :
        pc[r] = "done" =>
            /\ MissingFile(r) => response[r] = [status |-> 400, body |-> "error"]
            /\ InputFormatFailure(r) => response[r] = [status |-> 400, body |-> "error"]
            /\ (response[r].status # 200 /\ ~MissingFile(r) /\ ~InputFormatFailure(r))
                  => response[r].status = 500
            /\ response[r].status # 200 => response[r].body # "dataset"

(* C9: each MatchGroup is the greedy prefix of the transaction's candidate
   list: candidates are taken in ledger order, every candidate up to the
   stopping point that is unconsumed and has a parsable, unused id is
   accepted and no other is, the sum of every proper prefix of the group is
   below credit_amount - 0.01, and when the whole group stays below it the
   scan went through the whole list. *)
C9_GreedyPrefix ==
    \A r \in Runs : \A i \in Processed(r) :
        LET acc == accepted[r][i]
            n == Len(acc)
            last == IF Stopped(r, i) THEN acc[n] ELSE Len(bank_df[r])
        IN  /\ Len(matched[r][i]) = n
            /\ \A k \in 1..n : acc[k] \in Candidates(r, i)
            /\ \A k \in 2..n : acc[k - 1] < acc[k]
            /\ \A m \in 0..(n - 1) : PrefixSum(r, i, m) < CreditOf(r, i) - Epsilon
            /\ \A p \in Candidates(r, i) :
                  p <= last => (AvailableAt(r, i, p) <=> \E k \in 1..n : acc[k] = p)
            /\ \A p \in Candidates(r, i) :
                  p > last => \A k \in 1..n : acc[k] # p

\* A finished run with a transaction whose scan stopped within the 0.01
\* tolerance, short of the credit amount, leaving a later candidate with a
\* valid, unused id unconsumed.
C9_Witness ==
    \E r \in Runs :
        /\ Succeeded(r)
        /\ \E i \in Processed(r) :
              /\ Stopped(r, i)
              /\ PrefixSum(r, i, Len(matched[r][i])) < CreditOf(r, i)
              /\ \E p \in Candidates(r, i) :
                    /\ p > accepted[r][i][Len(accepted[r][i])]
                    /\ p \notin used_bank_indices[r]
                    /\ IdAt(r, p).k # "none"
                    /\ IdAt(r, p).v \notin used_oracle_numbers[r]

\* Some surviving row carries the i-th transaction.
Represented(r, i) ==
    \E k \in 1..Len(final_df[r]) :
        /\ final_df[r][k].ref = nbo_df[r][i].ref
        /\ final_df[r][k].desc = nbo_df[r][i].desc
        /\ final_df[r][k].credit = Num(CreditOf(r, i))

(* C10 as stated: every transaction of the input is represented in the
   final output by a surviving row with its reference, description and
   credit amount. *)
C10_EveryTransactionRepresented ==
    \A r \in Runs :
        Succeeded(r) => \A i \in 1..Len(nbo_df[r]) : Represented(r, i)

\* An earlier transaction with the same reference was left unmatched too.
ShadowedUnmatched(r, i) ==
    /\ matched[r][i] = <<>>
    /\ \E j \in 1..(i - 1) : nbo_df[r][j].ref = nbo_df[r][i].ref /\ matched[r][j] = <<>>

(* C10 as amended: every transaction is represented in the final output
   unless its MatchGroup is empty and an earlier transaction with the same
   reference has an empty MatchGroup as well; its reference is then still
   carried by the surviving row of the first such transaction. *)
C10_RepresentedUnlessShadowed ==
    \A r \in Runs :
        Succeeded(r) =>
            \A i \in 1..Len(nbo_df[r]) :
                /\ ~ShadowedUnmatched(r, i) => Represented(r, i)
                /\ \E k \in 1..Len(final_df[r]) : final_df[r][k].ref = nbo_df[r][i].ref

\* A finished run in which an unmatched transaction is shadowed by an earlier
\* unmatched one of the same reference, while a matched transaction of that
\* reference (or any other transaction) keeps its rows.
C10_Witness ==
    \E r \in Runs :
        /\ Succeeded(r)
        /\ \E i \in 1..Len(nbo_df[r]) : ShadowedUnmatched(r, i) /\ ~Represented(r, i)

====
